---- MODULE Spec2Model ----
(***************************************************************************)
(* Model of the great-circle geometry library geo.py: vector algebra,      *)
(* coordinate conversion, angles, distances, directions, bearings and      *)
(* cardinal labels.                                                        *)
(*                                                                         *)
(* Python floats are modelled as decimal floating-point numbers <<m, e>>   *)
(* standing for m * 10^e, with m = 0 (and e = 0) or 10^7 <= |m| < 10^8:    *)
(* eight significant digits, truncated towards zero, with an unbounded     *)
(* exponent.  The exponent matters: math.cos(math.radians(90)) is          *)
(* 6.1e-17 in Python, not 0, and the code's behaviour at the poles comes   *)
(* from that.  The values of math.cos and math.sin are those Python gives   *)
(* at the multiples of 45 degrees, which is the grid the arguments are     *)
(* drawn from.  A raised exception is modelled as the result               *)
(* [ok |-> FALSE, err |-> [type |-> ..., msg |-> ...]], a returned value   *)
(* as [ok |-> TRUE, val |-> ...].                                          *)
(***************************************************************************)
EXTENDS Integers, Sequences, FiniteSets, TLC

VARIABLES pc, op, args, ret

vars == <<pc, op, args, ret>>

(***************************************************************************)
(* Bounds of the model.                                                    *)
(***************************************************************************)
\* latitudes are the multiples of 45 degrees from -45*MaxLatStep to 45*MaxLatStep
MaxLatStep == 3
\* longitudes are the multiples of 45 degrees from -45*MaxLongStep to 45*MaxLongStep
MaxLongStep == 5
\* vectors have at most MaxVecLen components
MaxVecLen == 3
\* angles are the multiples of half a degree from -MaxHalfDeg/2 to MaxHalfDeg/2
MaxHalfDeg == 900

(***************************************************************************)
(* Python float arithmetic.                                                *)
(***************************************************************************)
Ten3 == 10 * 100
Ten4 == 100 * 100
Ten7 == 1000 * 10000
Ten8 == 10000 * 10000

AbsI(a) == IF a < 0 THEN -a ELSE a
SgnI(a) == IF a < 0 THEN -1 ELSE 1

RECURSIVE Pow10(_)
Pow10(k) == IF k = 0 THEN 1 ELSE 10 * Pow10(k - 1)

RECURSIVE NormUp(_, _)
NormUp(a, e) == IF a >= Ten7 THEN <<a, e>> ELSE NormUp(a * 10, e - 1)

RECURSIVE NormDown(_, _)
NormDown(a, e) == IF a < Ten8 THEN <<a, e>> ELSE NormDown(a \div 10, e + 1)

\* the float m * 10^e, for any integer m
Norm(m, e) ==
    IF m = 0 THEN <<0, 0>>
    ELSE LET a == AbsI(m)
             n == IF a >= Ten8 THEN NormDown(a, e) ELSE NormUp(a, e)
         IN <<SgnI(m) * n[1], n[2]>>

\* float(i)
FInt(i) == Norm(i, 0)

FZero == <<0, 0>>
FOne == <<10000000, -7>>
FTwo == <<20000000, -7>>
FHalf == <<50000000, -8>>

FNeg(x) == <<-x[1], x[2]>>
FAbs(x) == <<AbsI(x[1]), x[2]>>

\* x * y
FMul(x, y) ==
    IF x[1] = 0 \/ y[1] = 0 THEN FZero
    ELSE LET a == AbsI(x[1])
             b == AbsI(y[1])
             a1 == a \div Ten4
             a0 == a % Ten4
             b1 == b \div Ten4
             b0 == b % Ten4
             q == a1 * b1 * 10 + ((a1 * b0 + a0 * b1) + ((a0 * b0) \div Ten4)) \div Ten3
             s == SgnI(x[1]) * SgnI(y[1])
         IN IF q >= Ten8 THEN <<s * (q \div 10), x[2] + y[2] + 8>>
                         ELSE <<s * q, x[2] + y[2] + 7>>

\* x + y
FAdd(x, y) ==
    IF x[1] = 0 THEN y
    ELSE IF y[1] = 0 THEN x
    ELSE LET big == IF x[2] >= y[2] THEN x ELSE y
             sml == IF x[2] >= y[2] THEN y ELSE x
             d == big[2] - sml[2]
         IN IF d > 8 THEN big
            ELSE Norm(big[1] + SgnI(sml[1]) * (AbsI(sml[1]) \div Pow10(d)), big[2])

\* x - y
FSub(x, y) == FAdd(x, FNeg(y))

RECURSIVE LongDiv(_, _, _, _)
LongDiv(r, b, n, acc) ==
    IF n = 0 THEN acc
    ELSE LongDiv((r * 10) % b, b, n - 1, acc * 10 + (r * 10) \div b)

\* x / y, for y # 0
FDiv(x, y) ==
    IF x[1] = 0 THEN FZero
    ELSE LET a == AbsI(x[1])
             b == AbsI(y[1])
             q == LongDiv(a % b, b, 8, a \div b)
         IN Norm(SgnI(x[1]) * SgnI(y[1]) * q, x[2] - y[2] - 8)

\* x < y
FLt(x, y) ==
    IF x[1] = 0 THEN y[1] > 0
    ELSE IF y[1] = 0 THEN x[1] < 0
    ELSE IF SgnI(x[1]) # SgnI(y[1]) THEN x[1] < 0
    ELSE IF x[2] # y[2] THEN (IF x[1] > 0 THEN x[2] < y[2] ELSE x[2] > y[2])
    ELSE x[1] < y[1]

\* x <= y
FLe(x, y) == ~FLt(y, x)

RECURSIVE ISqrtIter(_, _)
ISqrtIter(M, g) ==
    LET h == (g + M \div g) \div 2
    IN IF h >= g THEN g ELSE ISqrtIter(M, h)

\* the integer square root of 10^7 <= M < 10^9
ISqrt(M) == ISqrtIter(M, 31623)

\* one Newton step from the estimate s of the square root of x
NewtonStep(x, s) == FMul(FHalf, FAdd(s, FDiv(x, s)))

\* math.sqrt(x), for x >= 0: integer square root of the mantissa, then two
\* Newton steps
FSqrt(x) ==
    IF x[1] = 0 THEN FZero
    ELSE IF (x[2] % 2) # 0
    THEN NewtonStep(x, NewtonStep(x, Norm(ISqrt(x[1] * 10), (x[2] - 1) \div 2)))
    ELSE NewtonStep(x, NewtonStep(x, Norm(ISqrt(x[1]), x[2] \div 2)))

\* the integer nearest to x * 10^t, ties to the even one (Python's round);
\* for |x * 10^t| < 10^9
RoundScaled(x, t) ==
    LET s == x[2] + t
        a == AbsI(x[1])
    IN IF x[1] = 0 THEN 0
       ELSE IF s >= 0 THEN x[1] * Pow10(s)
       ELSE IF -s > 8 THEN 0
       ELSE LET p == Pow10(-s)
                q == a \div p
                r == a % p
                n == IF 2 * r > p \/ (2 * r = p /\ q % 2 = 1) THEN q + 1 ELSE q
            IN SgnI(x[1]) * n

\* round(x, ndigits)
FRound(x, ndigits) == Norm(RoundScaled(x, ndigits), -ndigits)

FPi == <<31415926, -7>>
FPiHalf == <<15707963, -7>>
FPiSixth == <<52359877, -8>>
FSqrt3 == <<17320508, -7>>
FTan15 == <<26794919, -8>>
\* 180 / pi
FDegPerRad == <<57295779, -6>>

\* 1/k - z * (1/(k+2) - z * (... 1/15)): the arctangent series, in Horner form
RECURSIVE AtanHorner(_, _)
AtanHorner(z, k) ==
    IF k >= 15 THEN FDiv(FOne, FInt(k))
    ELSE FSub(FDiv(FOne, FInt(k)), FMul(z, AtanHorner(z, k + 2)))

\* atan(u) for |u| <= tan(15 degrees)
AtanSeries(u) == FMul(u, AtanHorner(FMul(u, u), 1))

\* atan(t) for 0 <= t <= 1
AtanUnit(t) ==
    IF FLt(FTan15, t)
    THEN FAdd(FPiSixth, AtanSeries(FDiv(FSub(FMul(FSqrt3, t), FOne), FAdd(FSqrt3, t))))
    ELSE AtanSeries(t)

\* atan(t) for t >= 0
FAtan(t) ==
    IF FLt(FOne, t) THEN FSub(FPiHalf, AtanUnit(FDiv(FOne, t))) ELSE AtanUnit(t)

\* math.acos(c) for -1 <= c <= 1: 2 * atan(sqrt((1 - c) / (1 + c))), pi at -1
FAcos(c) ==
    IF c = FNeg(FOne) THEN FPi
    ELSE FMul(FTwo, FAtan(FSqrt(FDiv(FSub(FOne, c), FAdd(FOne, c)))))

\* math.degrees(x)
FDegrees(x) == FMul(x, FDegPerRad)

\* math.cos(math.radians(d)), d a multiple of 45 degrees: the values Python gives
CosDeg(d) ==
    LET a == AbsI(d) % 360
        b == IF a > 180 THEN 360 - a ELSE a
    IN CASE b = 0 -> FOne
         [] b = 45 -> <<70710678, -8>>
         [] b = 90 -> <<61232339, -24>>
         [] b = 135 -> <<-70710678, -8>>
         [] b = 180 -> FNeg(FOne)

\* math.sin(math.radians(d)), d a multiple of 45 degrees: the values Python gives
SinDeg(d) ==
    LET a == AbsI(d) % 360
        b == IF a > 180 THEN 360 - a ELSE a
        s == IF a > 180 THEN -SgnI(d) ELSE SgnI(d)
        v == CASE b = 0 -> FZero
               [] b = 45 -> <<70710678, -8>>
               [] b = 90 -> FOne
               [] b = 135 -> <<70710678, -8>>
               [] b = 180 -> <<12246467, -23>>
    IN <<s * v[1], v[2]>>

(***************************************************************************)
(* Results of a call.                                                      *)
(***************************************************************************)
Return(v) == [ok |-> TRUE, val |-> v]
Raise(e) == [ok |-> FALSE, err |-> e]
NoResult == [ok |-> FALSE, err |-> "not called"]

\* x = r, then F(x): an exception raised by r propagates, since geo.py has
\* no try statement
Try(r, F(_)) == IF r.ok THEN F(r.val) ELSE r

\* x = e, then F(x)
With(e, F(_)) == F(e)

(***************************************************************************)
(* geo.py                                                                  *)
(***************************************************************************)
\* Radius of the Earth in Km
R == 6371

ValueError(msg) == Raise([type |-> "ValueError", msg |-> msg])
IndexError(msg) == Raise([type |-> "IndexError", msg |-> msg])

\* sum(s) of a list of floats: 0 + s[1] + s[2] + ...
RECURSIVE SumFrom(_, _, _)
SumFrom(s, i, acc) ==
    IF i > Len(s) THEN acc ELSE SumFrom(s, i + 1, FAdd(acc, s[i]))

sum(s) == SumFrom(s, 1, FZero)

Min2(a, b) == IF a <= b THEN a ELSE b

magnitude(v) == FSqrt(sum([i \in 1..Len(v) |-> FMul(v[i], v[i])]))

dot_product(v, w) ==
    IF Len(v) # Len(w)
    THEN ValueError("Vectors must have the same length")
    ELSE Return(sum([i \in 1..Min2(Len(v), Len(w)) |-> FMul(v[i], w[i])]))

cross_product(v, w) ==
    IF Len(v) # 3 \/ Len(w) # 3
    THEN ValueError("Vectors must have a length of 3")
    ELSE LET x == FSub(FMul(v[2], w[3]), FMul(v[3], w[2]))
             y == FSub(FMul(v[3], w[1]), FMul(v[1], w[3]))
             z == FSub(FMul(v[1], w[2]), FMul(v[2], w[1]))
         IN Return(<<x, y, z>>)

\* to_vector with the range tests made exclusive of their end points
to_vector_exclusive(lat, long) ==
    IF lat <= -90 \/ lat >= 90
    THEN ValueError("Latitude must be between -90 and 90")
    ELSE IF long <= -180 \/ long >= 180
    THEN ValueError("Longitude must be between -180 and 180")
    ELSE Return(<<FMul(FMul(FInt(R), CosDeg(lat)), CosDeg(long)),
                  FMul(FMul(FInt(R), CosDeg(lat)), SinDeg(long)),
                  FMul(FInt(R), SinDeg(lat))>>)

\* lat and long are whole degrees
to_vector(lat, long) ==
    IF lat < -90 \/ lat > 90
    THEN ValueError("Latitude must be between -90 and 90")
    ELSE IF long < -180 \/ long > 180
    THEN ValueError("Longitude must be between -180 and 180")
    ELSE LET x == FMul(FMul(FInt(R), CosDeg(lat)), CosDeg(long))
             y == FMul(FMul(FInt(R), CosDeg(lat)), SinDeg(long))
             z == FMul(FInt(R), SinDeg(lat))
         IN Return(<<x, y, z>>)

\* angle_vectors with the zero-vector convention tested before the lengths
angle_vectors_zero_first(v, w) ==
    IF magnitude(v) = FZero \/ magnitude(w) = FZero
    THEN Return(FZero)
    ELSE IF Len(v) # Len(w)
    THEN ValueError("Vectors must have the same length")
    ELSE Try(dot_product(v, w), LAMBDA d :
         With(FRound(FDiv(d, FMul(magnitude(v), magnitude(w))), 5), LAMBDA c :
         IF FLt(FOne, FAbs(c)) THEN ValueError("math domain error")
         ELSE Return(FAcos(c))))

angle_vectors(v, w) ==
    IF Len(v) # Len(w)
    THEN ValueError("Vectors must have the same length")
    ELSE IF magnitude(v) = FZero \/ magnitude(w) = FZero
    THEN Return(FZero)
    ELSE Try(dot_product(v, w), LAMBDA d :
         With(FRound(FDiv(d, FMul(magnitude(v), magnitude(w))), 5), LAMBDA c :
         IF FLt(FOne, FAbs(c)) THEN ValueError("math domain error")
         ELSE Return(FAcos(c))))

\* angle_between_coordinates answering "no separation" when the second
\* coordinate cannot be converted
angle_between_coordinates_default(lat1, long1, lat2, long2) ==
    Try(to_vector(lat1, long1), LAMBDA u :
    With(to_vector(lat2, long2), LAMBDA v :
    IF ~v.ok THEN Return(FZero) ELSE angle_vectors(u, v.val)))

angle_between_coordinates(lat1, long1, lat2, long2) ==
    Try(to_vector(lat1, long1), LAMBDA u :
    Try(to_vector(lat2, long2), LAMBDA v :
    angle_vectors(u, v)))

\* distance_between_coordinates without the scaling by R
distance_between_coordinates_unscaled(lat1, long1, lat2, long2) ==
    angle_between_coordinates(lat1, long1, lat2, long2)

distance_between_coordinates(lat1, long1, lat2, long2) ==
    Try(angle_between_coordinates(lat1, long1, lat2, long2), LAMBDA angle :
    Return(FMul(angle, FInt(R))))

\* (0, 0, 1)
ZAxis == <<FZero, FZero, FOne>>

\* cross_product(cross_product(v, w), v), for vectors v and w
double_cross(v, w) == Try(cross_product(v, w), LAMBDA n : cross_product(n, v))

\* direction_between_coordinates without the degenerate case
direction_between_coordinates_nofallback(lat1, long1, lat2, long2) ==
    Try(to_vector(lat1, long1), LAMBDA v :
    Try(to_vector(lat2, long2), LAMBDA w :
    double_cross(v, w)))

direction_between_coordinates(lat1, long1, lat2, long2) ==
    Try(to_vector(lat1, long1), LAMBDA v :
    Try(to_vector(lat2, long2), LAMBDA w :
    Try(double_cross(v, w), LAMBDA result :
    IF FLt(magnitude(result), FOne)
    THEN double_cross(v, ZAxis)
    ELSE Return(result))))

\* bearing_between_coordinates with the comparison of the longitudes reversed
bearing_between_coordinates_reversed(lat1, long1, lat2, long2) ==
    Try(to_vector(lat1, long1), LAMBDA v :
    Try(double_cross(v, ZAxis), LAMBDA north_vector :
    Try(direction_between_coordinates(lat1, long1, lat2, long2), LAMBDA w :
    Try(angle_vectors(w, north_vector), LAMBDA a :
    With(FDegrees(a), LAMBDA bearing :
    IF long2 > long1 THEN Return(FSub(FInt(360), bearing))
    ELSE Return(bearing))))))

bearing_between_coordinates(lat1, long1, lat2, long2) ==
    Try(to_vector(lat1, long1), LAMBDA v :
    Try(double_cross(v, ZAxis), LAMBDA north_vector :
    Try(direction_between_coordinates(lat1, long1, lat2, long2), LAMBDA w :
    Try(angle_vectors(w, north_vector), LAMBDA a :
    With(FDegrees(a), LAMBDA bearing :
    IF long2 < long1 THEN Return(FSub(FInt(360), bearing))
    ELSE Return(bearing))))))

cardinals == <<"N", "NE", "E", "SE", "S", "SW", "W", "NW", "N">>

\* list[i] in Python: a negative index counts from the end
PyIndex(list, i) ==
    IF 0 <= i /\ i < Len(list) THEN Return(list[i + 1])
    ELSE IF -Len(list) <= i /\ i < 0 THEN Return(list[Len(list) + i + 1])
    ELSE IndexError("list index out of range")

\* cardinal_from_angle on a list without the closing "N"
cardinal_from_angle_nowrap(angle) ==
    PyIndex(SubSeq(cardinals, 1, 8), RoundScaled(FDiv(angle, FInt(45)), 0))

\* angle is a float, in degrees
cardinal_from_angle(angle) ==
    PyIndex(cardinals, RoundScaled(FDiv(angle, FInt(45)), 0))

(***************************************************************************)
(* Calls on pairs of coordinates.  A behaviour draws the four arguments    *)
(* and makes one call.                                                     *)
(***************************************************************************)
Lats == {45 * k : k \in -MaxLatStep..MaxLatStep}
Longs == {45 * k : k \in -MaxLongStep..MaxLongStep}

Init ==
    /\ pc = "call"
    /\ op = "none"
    /\ \E lat1 \in Lats, long1 \in Longs, lat2 \in Lats, long2 \in Longs :
            args = <<lat1, long1, lat2, long2>>
    /\ ret = NoResult

\* the call of the function called name returns, or raises, result
Finish(name, result) ==
    /\ pc' = "done"
    /\ op' = name
    /\ ret' = result
    /\ UNCHANGED args

Call_angle_between_coordinates ==
    /\ pc = "call"
    /\ Finish("angle_between_coordinates",
              angle_between_coordinates(args[1], args[2], args[3], args[4]))

Call_distance_between_coordinates ==
    /\ pc = "call"
    /\ Finish("distance_between_coordinates",
              distance_between_coordinates(args[1], args[2], args[3], args[4]))

Call_direction_between_coordinates ==
    /\ pc = "call"
    /\ Finish("direction_between_coordinates",
              direction_between_coordinates(args[1], args[2], args[3], args[4]))

Call_bearing_between_coordinates ==
    /\ pc = "call"
    /\ Finish("bearing_between_coordinates",
              bearing_between_coordinates(args[1], args[2], args[3], args[4]))

Next ==
    \/ Call_angle_between_coordinates
    \/ Call_distance_between_coordinates
    \/ Call_direction_between_coordinates
    \/ Call_bearing_between_coordinates

Spec == Init /\ [][Next]_vars

(***************************************************************************)
(* Calls of to_vector.  A behaviour draws one coordinate and converts it.  *)
(***************************************************************************)
InitCoord ==
    /\ pc = "call"
    /\ op = "none"
    /\ \E lat \in Lats, long \in Longs : args = <<lat, long>>
    /\ ret = NoResult

Call_to_vector ==
    /\ pc = "call"
    /\ Finish("to_vector",
              to_vector(args[1], args[2]))

\* magnitude(to_vector(lat, long)), as the tests of to_vector use it
Call_magnitude_of_vector ==
    /\ pc = "done"
    /\ op = "to_vector"
    /\ ret.ok
    /\ pc' = "measured"
    /\ op' = "magnitude"
    /\ ret' = Return(magnitude(ret.val))
    /\ UNCHANGED args

NextCoord == Call_to_vector \/ Call_magnitude_of_vector

SpecCoord == InitCoord /\ [][NextCoord]_vars

(***************************************************************************)
(* Calls of the vector algebra on tuples of integers.                      *)
(***************************************************************************)
Components == {-1, 0, 1}

RECURSIVE TuplesUpTo(_)
TuplesUpTo(n) ==
    IF n = 0 THEN {<<>>}
    ELSE LET shorter == TuplesUpTo(n - 1)
         IN shorter \cup {Append(t, c) : t \in {u \in shorter : Len(u) = n - 1}, c \in Components}

Vectors == TuplesUpTo(MaxVecLen)

\* the tuple of floats of a tuple of integers
Floats(t) == [i \in 1..Len(t) |-> FInt(t[i])]

InitVector ==
    /\ pc = "call"
    /\ op = "none"
    /\ \E v \in Vectors, w \in Vectors : args = <<v, w>>
    /\ ret = NoResult

Call_magnitude ==
    /\ pc = "call"
    /\ Finish("magnitude",
              Return(magnitude(Floats(args[1]))))

Call_dot_product ==
    /\ pc = "call"
    /\ Finish("dot_product",
              dot_product(Floats(args[1]), Floats(args[2])))

Call_cross_product ==
    /\ pc = "call"
    /\ Finish("cross_product",
              cross_product(Floats(args[1]), Floats(args[2])))

Call_angle_vectors ==
    /\ pc = "call"
    /\ Finish("angle_vectors",
              angle_vectors(Floats(args[1]), Floats(args[2])))

NextVector ==
    \/ Call_magnitude
    \/ Call_dot_product
    \/ Call_cross_product
    \/ Call_angle_vectors

SpecVector == InitVector /\ [][NextVector]_vars

(***************************************************************************)
(* Calls of cardinal_from_angle.  The argument is args[1] / 2 degrees.     *)
(***************************************************************************)
InitCardinal ==
    /\ pc = "call"
    /\ op = "none"
    /\ \E h \in -MaxHalfDeg..MaxHalfDeg : args = <<h>>
    /\ ret = NoResult

Call_cardinal_from_angle ==
    /\ pc = "call"
    /\ Finish("cardinal_from_angle",
              cardinal_from_angle(FMul(FInt(args[1]), FHalf)))

NextCardinal == Call_cardinal_from_angle

SpecCardinal == InitCardinal /\ [][NextCardinal]_vars

(***************************************************************************)
(* Vocabulary of the properties.                                           *)
(***************************************************************************)
ValidCoord(lat, long) == -90 <= lat /\ lat <= 90 /\ -180 <= long /\ long <= 180
ValidPair(a) == ValidCoord(a[1], a[2]) /\ ValidCoord(a[3], a[4])

IsPole(lat) == lat = 90 \/ lat = -90

\* the two coordinates name the same point of the sphere
SamePoint(a) ==
    /\ a[1] = a[3]
    /\ \/ (a[4] - a[2]) % 360 = 0
       \/ IsPole(a[1])

\* the two coordinates name opposite points of the sphere
Antipodal(a) ==
    /\ a[3] = -a[1]
    /\ \/ (a[4] - a[2]) % 360 = 180
       \/ IsPole(a[1])

\* |x - y| <= tol
FNear(x, y, tol) == FLe(FAbs(FSub(x, y)), tol)

\* a thousandth (of a degree, of a radian)
Milli == <<10000000, -10>>

RangeMessages ==
    {"Latitude must be between -90 and 90", "Longitude must be between -180 and 180"}

IsRangeError(r) ==
    /\ ~r.ok
    /\ r.err.type = "ValueError"
    /\ r.err.msg \in RangeMessages

(***************************************************************************)
(* Properties.                                                             *)
(***************************************************************************)
Called(name) == pc = "done" /\ op = name

\* C1: for every pair of valid coordinates bearing_between_coordinates
\* returns a value b with 0 <= b < 360, degenerate pairs and pairs with
\* long2 < long1 included.
C1_BearingBelow360 ==
    (Called("bearing_between_coordinates") /\ ValidPair(args)) =>
        /\ ret.ok
        /\ FLe(FZero, ret.val)
        /\ FLt(ret.val, FInt(360))

\* the second point of a pair on the equator lies to the east (west) of the
\* first along the shortest path
EastOf(a) == (a[4] - a[2]) % 360 > 0 /\ (a[4] - a[2]) % 360 < 180
WestOf(a) == (a[4] - a[2]) % 360 > 180

\* C2: for two distinct, non-antipodal points on the equator
\* bearing_between_coordinates returns 90 when the second lies to the east
\* along the shortest path and 270 when it lies to the west, also when the
\* shortest path crosses the +/-180 meridian.
C2_EquatorBearing ==
    (/\ Called("bearing_between_coordinates")
     /\ ValidPair(args)
     /\ args[1] = 0
     /\ args[3] = 0) =>
        /\ EastOf(args) => (ret.ok /\ FNear(ret.val, FInt(90), Milli))
        /\ WestOf(args) => (ret.ok /\ FNear(ret.val, FInt(270), Milli))

\* the k-th of N, NE, E, SE, S, SW, W, NW, counted from 0 and wrapping at 8
Label(k) == <<"N", "NE", "E", "SE", "S", "SW", "W", "NW">>[(k % 8) + 1]
Labels == {Label(k) : k \in 0..7}

\* n / d rounded to the nearest integer, ties to the even one, for n >= 0
NearestEven(n, d) ==
    IF 2 * (n % d) > d \/ (2 * (n % d) = d /\ (n \div d) % 2 = 1)
    THEN n \div d + 1
    ELSE n \div d

\* C3: for every angle in [0, 360] cardinal_from_angle returns, without
\* failing, the entry at index round(angle / 45) of [N, NE, E, SE, S, SW, W,
\* NW, N], one of the 8 labels: the k-th label (k = 8 wrapping to N) when
\* the angle is strictly closer than 22.5 degrees to 45*k, and one of the
\* two adjacent labels when the angle is exactly 22.5 + 45*k.
C3_CardinalInRange ==
    (Called("cardinal_from_angle") /\ 0 <= args[1] /\ args[1] <= 720) =>
        /\ ret.ok
        /\ ret.val \in Labels
        /\ ret.val = Label(NearestEven(args[1], 90))
        /\ \A k \in 0..8 :
            /\ AbsI(args[1] - 90 * k) < 45 => ret.val = Label(k)
            /\ args[1] = 45 + 90 * k => ret.val \in {Label(k), Label(k + 1)}

\* the angle 360 wraps to N
C3_Witness ==
    /\ Called("cardinal_from_angle")
    /\ args[1] = 720
    /\ ret = Return("N")

\* C4: for every angle outside [0, 360] cardinal_from_angle fails with an
\* out-of-range index error and returns no label.
C4_OutOfRangeFails ==
    (Called("cardinal_from_angle") /\ (args[1] < 0 \/ args[1] > 720)) =>
        /\ ~ret.ok
        /\ ret.err.type = "IndexError"

\* C5: to_vector fails with the range error if and only if lat < -90,
\* lat > 90, long < -180 or long > 180, and returns a 3-component vector
\* for every other input, the end points of the ranges included.
C5_ToVectorRange ==
    Called("to_vector") =>
        /\ ~ret.ok <=> ~ValidCoord(args[1], args[2])
        /\ ~ret.ok => IsRangeError(ret)
        /\ ret.ok => Len(ret.val) = 3

\* a corner of the valid domain is converted
C5_Witness ==
    /\ Called("to_vector")
    /\ args = <<90, -180>>
    /\ ret.ok

CoordinateFunctions ==
    {"angle_between_coordinates", "distance_between_coordinates",
     "direction_between_coordinates", "bearing_between_coordinates"}

\* C6: each of angle_, distance_, direction_ and bearing_between_coordinates
\* raises the range error whenever either of its two coordinates is out of
\* range, and returns no value then.
C6_RangeErrorPropagates ==
    (pc = "done" /\ op \in CoordinateFunctions /\ ~ValidPair(args)) =>
        IsRangeError(ret)

\* only the second coordinate is out of range
C6_Witness ==
    /\ Called("bearing_between_coordinates")
    /\ ValidCoord(args[1], args[2])
    /\ ~ValidCoord(args[3], args[4])
    /\ IsRangeError(ret)

\* the north-referenced tangent at the point (lat, long)
NorthTangent(lat, long) == double_cross(to_vector(lat, long).val, ZAxis)

\* C7: for valid coordinates with vectors v and w,
\* direction_between_coordinates returns cross(cross(v, w), v) when that
\* vector has magnitude >= 1 and the north-referenced tangent
\* cross(cross(v, (0,0,1)), v) otherwise; for identical and for antipodal
\* points it returns the north-referenced tangent, (0, 0, R^2) for (0,0)
\* paired with (0,0) or (0,180), which points north.
C7_Direction ==
    (Called("direction_between_coordinates") /\ ValidPair(args)) =>
        LET v == to_vector(args[1], args[2]).val
            w == to_vector(args[3], args[4]).val
            tangent == double_cross(v, w)
            north == NorthTangent(args[1], args[2])
        IN /\ FLe(FOne, magnitude(tangent.val)) => ret = tangent
           /\ FLt(magnitude(tangent.val), FOne) => ret = north
           /\ (SamePoint(args) \/ Antipodal(args)) => ret = north
           /\ (args = <<0, 0, 0, 0>> \/ args = <<0, 0, 0, 180>>) =>
                ret = Return(<<FZero, FZero, FInt(R * R)>>)
           /\ ((SamePoint(args) \/ Antipodal(args)) /\ ~IsPole(args[1])) =>
                FLt(FZero, ret.val[3])

\* the antipodal pair of the tests
C7_Witness ==
    /\ Called("direction_between_coordinates")
    /\ args = <<0, 0, 0, 180>>
    /\ ret = Return(<<FZero, FZero, FInt(R * R)>>)

\* every component of the tuple of integers t is 0
IsZeroVector(t) == \A i \in 1..Len(t) : t[i] = 0

Negated(t) == [i \in 1..Len(t) |-> -t[i]]

\* C8: angle_vectors(v, w) raises the length-mismatch error whenever
\* len(v) # len(w), also when v or w is a zero vector; with equal lengths
\* and v or w of zero magnitude it returns 0; otherwise it returns an angle
\* in [0, pi], 0 for w = v and pi for w = -v.
C8_AngleVectors ==
    Called("angle_vectors") =>
        LET v == args[1]
            w == args[2]
        IN /\ Len(v) # Len(w) =>
                ret = ValueError("Vectors must have the same length")
           /\ (Len(v) = Len(w) /\ (IsZeroVector(v) \/ IsZeroVector(w))) =>
                ret = Return(FZero)
           /\ (Len(v) = Len(w) /\ ~IsZeroVector(v) /\ ~IsZeroVector(w)) =>
                /\ ret.ok
                /\ FLe(FZero, ret.val)
                /\ FLe(ret.val, FPi)
                /\ w = v => ret.val = FZero
                /\ w = Negated(v) => ret.val = FPi

\* a zero vector against a vector of another length
C8_Witness ==
    /\ Called("angle_vectors")
    /\ Len(args[1]) = 2
    /\ IsZeroVector(args[1])
    /\ Len(args[2]) = 3
    /\ ret = ValueError("Vectors must have the same length")

\* C9: distance_between_coordinates equals angle_between_coordinates times
\* R for every valid pair, is 0 for identical coordinates, pi*R for
\* antipodal coordinates, lies in [0, pi*R], and is symmetric in its two
\* points.
C9_Distance ==
    (Called("distance_between_coordinates") /\ ValidPair(args)) =>
        LET angle == angle_between_coordinates(args[1], args[2], args[3], args[4])
        IN /\ ret.ok
           /\ angle.ok
           /\ ret.val = FMul(angle.val, FInt(R))
           /\ SamePoint(args) => ret.val = FZero
           /\ Antipodal(args) => ret.val = FMul(FPi, FInt(R))
           /\ FLe(FZero, ret.val)
           /\ FLe(ret.val, FMul(FPi, FInt(R)))
           /\ ret = distance_between_coordinates(args[3], args[4], args[1], args[2])

\* half a great circle
C9_Witness ==
    /\ Called("distance_between_coordinates")
    /\ args = <<0, 0, 0, 180>>
    /\ ret = Return(FMul(FPi, FInt(R)))

\* C10: bearing_between_coordinates computes the unsigned bearing
\* u = degrees(angle_vectors(direction, north_vector)), always in [0, 180],
\* and returns u when long2 >= long1 and 360 - u when long2 < long1;
\* mirroring long2 about long1 with the latitudes kept maps a result b to
\* 360 - b.
C10_BearingMirror ==
    (Called("bearing_between_coordinates") /\ ValidPair(args)) =>
        LET w == direction_between_coordinates(args[1], args[2], args[3], args[4])
            north == NorthTangent(args[1], args[2])
            u == FDegrees(angle_vectors(w.val, north.val).val)
            mirror == 2 * args[2] - args[4]
        IN /\ ret.ok
           /\ FLe(FZero, u)
           /\ FLe(u, FInt(180))
           /\ args[4] >= args[2] => ret.val = u
           /\ args[4] < args[2] => ret.val = FSub(FInt(360), u)
           /\ (args[4] # args[2] /\ ValidCoord(args[3], mirror)) =>
                FNear(FAdd(ret.val,
                           bearing_between_coordinates(args[1], args[2], args[3], mirror).val),
                      FInt(360), Milli)

\* the mirrored pair of the tests: 305.26 degrees
C10_Witness ==
    /\ Called("bearing_between_coordinates")
    /\ args = <<45, 0, 45, -90>>
    /\ ret.ok
    /\ FNear(ret.val, <<30526000, -5>>, <<10000000, -9>>)

====
